---- MODULE Spec2Model ----
(***************************************************************************)
(* A model of the lightweight PCAP container (package lpcap): the file     *)
(* header codec, the packet header codec, the pooled scratch buffers and   *)
(* the PCAP session (Create, Open, ReadPacket, WritePacket, Close and the  *)
(* accessors) over an os.File byte store.                                  *)
(*                                                                         *)
(* Bytes are modelled as numbers 0..255, the file as a sequence of bytes,  *)
(* a pooled buffer as its whole backing array (cap MaxSnapLength) and a    *)
(* slice of it as (buffer id, length).                                     *)
(***************************************************************************)
EXTENDS Integers, Sequences, FiniteSets, TLC

(***************************************************************************)
(* Bounds of the model.                                                    *)
(***************************************************************************)
\* Maximum frame length; 1<<14 - 1 in the source (lpcap.go:73), scaled down
\* so that a whole backing array fits in a state.  Payloads are then at
\* most MaxSnapLength - 10 octets long.
MaxSnapLength == 12
\* Capacity of the volume holding the file: a write that does not fit fails.
MaxFile == 36
\* Number of calls made in one behaviour.
MaxOps == 4
\* Number of Packet values the caller holds (targets of ReadPacket).
NSlots == 1
\* Number of goroutines that call into one container concurrently.
NThreads == 2
\* Number of calls the goroutines make in one behaviour.
MaxCalls == 3

(***************************************************************************)
(* Program constants.                                                      *)
(***************************************************************************)
MajorVer == 1
MinorVer == 0
lpcapmx == 20286              \* 0x4f3e
minFileSize == 14
minPacketSize == 10

\* const ( LinkTypeNull LinkType = 0; LinkTypeEthernet2 LinkType = 2 << iota; ... )
\* iota counts the lines of the const block from 0, so it is 1 on the
\* line of LinkTypeEthernet2, 2 and 3 on the two lines after it.
Shl(x, n) == x * (2 ^ n)
LinkTypeNull == 0
LinkTypeEthernet2_iota0 == Shl(2, 0)
LinkTypeEthernet2 == Shl(2, 1)
LinkTypeEthernet80211 == Shl(2, 2)
LinkTypeFDDI == Shl(2, 3)

\* const ( PacketTypeBroadcast = 2 << iota; PacketTypeUnicast; PacketTypeMulticast )
PacketTypeBroadcast == Shl(2, 0)
PacketTypeUnicast == Shl(2, 1)
PacketTypeMulticast == Shl(2, 2)

\* const ( ErrOk ErrorCode = 0; ErrRead ErrorCode = 1 << iota; ErrWrite; ... )
ErrOk == 0
ErrRead == Shl(1, 1)
ErrWrite == Shl(1, 2)
ErrInvalidHeader == Shl(1, 3)
ErrSizeOverflow == Shl(1, 4)
ErrNoMorePacket == Shl(1, 5)

(***************************************************************************)
(* encoding/binary.LittleEndian and slices.                                *)
(***************************************************************************)
Min(a, b) == IF a < b THEN a ELSE b
Max(a, b) == IF a > b THEN a ELSE b

PutUint16(v) == << v % 256, (v \div 256) % 256 >>
PutUint32(v) ==
    << v % 256, (v \div 256) % 256, (v \div 65536) % 256, (v \div 16777216) % 256 >>
\* Uint16(b[off:]) and Uint32(b[off:]), off counted from 0 as in the source.
Uint16(b, off) == b[off + 1] + 256 * b[off + 2]
Uint32(b, off) ==
    b[off + 1] + 256 * b[off + 2] + 65536 * b[off + 3] + 16777216 * b[off + 4]

Zeros(n) == [i \in 1..n |-> 0]
\* copy(dst[at:], src) limited to the first `lim` octets of dst: dst with
\* src laid over it from octet `at` (counted from 0).
Overlay(dst, at, src, lim) ==
    [i \in 1..Len(dst) |->
        IF i > at /\ i <= at + Len(src) /\ i <= lim THEN src[i - at] ELSE dst[i]]

(***************************************************************************)
(* The header codec (file header) and the frame codec (packet header).     *)
(***************************************************************************)
NilHeader == [nil |-> TRUE]
FileHeader(mx, major, minor, snap, link) ==
    [mx |-> mx, majorVer |-> major, minorVer |-> minor, snapLen |-> snap, link |-> link]

\* The 14 octets Create writes for header hd.
marshalFileHeader(hd) ==
    PutUint16(hd.mx) \o PutUint16(hd.majorVer) \o PutUint16(hd.minorVer)
        \o PutUint32(hd.snapLen) \o PutUint32(hd.link)

\* A mutant of unmarshalFileHeader: the minor version is checked before the
\* major version.
unmarshalFileHeader_minorFirst(b) ==
    IF Uint16(b, 0) # lpcapmx
        THEN [h |-> NilHeader, erroffset |-> 0, err |-> "magic"]
    ELSE IF Uint16(b, 4) = 0
        THEN [h |-> NilHeader, erroffset |-> 4, err |-> "minor"]
    ELSE IF Uint16(b, 2) = 0
        THEN [h |-> NilHeader, erroffset |-> 2, err |-> "major"]
    ELSE IF Uint32(b, 10) # LinkTypeEthernet2 /\ Uint32(b, 10) # LinkTypeEthernet80211
        THEN [h |-> NilHeader, erroffset |-> 10, err |-> "link"]
    ELSE [h |-> FileHeader(Uint16(b, 0), Uint16(b, 2), Uint16(b, 4), Uint32(b, 6), 0),
          erroffset |-> 0, err |-> "nil"]

\* unmarshalFileHeader(b) (*fileHeader, int64, error).  The decoded link
\* type is validated but never stored: h.link keeps its zero value.
unmarshalFileHeader(b) ==
    IF Uint16(b, 0) # lpcapmx
        THEN [h |-> NilHeader, erroffset |-> 0, err |-> "magic"]
    ELSE IF Uint16(b, 2) = 0
        THEN [h |-> NilHeader, erroffset |-> 2, err |-> "major"]
    ELSE IF Uint16(b, 4) = 0
        THEN [h |-> NilHeader, erroffset |-> 4, err |-> "minor"]
    ELSE IF Uint32(b, 10) # LinkTypeEthernet2 /\ Uint32(b, 10) # LinkTypeEthernet80211
        THEN [h |-> NilHeader, erroffset |-> 10, err |-> "link"]
    ELSE [h |-> FileHeader(Uint16(b, 0), Uint16(b, 2), Uint16(b, 4), Uint32(b, 6), 0),
          erroffset |-> 0, err |-> "nil"]

\* unmarshalPacketHeader(b, maxLen) (*packetHeader, int64, error)
unmarshalPacketHeader(b, maxLen) ==
    IF b[2] # PacketTypeBroadcast /\ b[2] # PacketTypeUnicast /\ b[2] # PacketTypeMulticast
        THEN [ok |-> FALSE, erroffset |-> 0, err |-> "ptype"]
    ELSE IF Uint32(b, 2) = 0
        THEN [ok |-> FALSE, erroffset |-> 2, err |-> "timestamp"]
    ELSE IF Uint32(b, 6) > maxLen
        THEN [ok |-> FALSE, erroffset |-> 6, err |-> "len"]
    ELSE [ok |-> TRUE, erroffset |-> 0, err |-> "nil",
          ifindex |-> b[1], ptype |-> b[2],
          timestamp |-> Uint32(b, 2), len |-> Uint32(b, 6)]

\* The packet header octets WritePacket puts in b[0:10].
marshalPacketHeader(p) ==
    << p.Index, p.PacketType >> \o PutUint32(p.Timestamp) \o PutUint32(p.Len)

(***************************************************************************)
(* State.                                                                  *)
(***************************************************************************)
VARIABLES
    disk,       \* the octets of the file at the path given to Create/Open
    rd,         \* pcap.rd, the *os.File handle: open, mode, position, Close calls
    pcap,       \* the *PCAP returned by Create/Open: h, len, offset, isClosed, lasterr, fsize
    bufs,       \* backing arrays of the scratch buffers made by packetPool.New
    pooled,     \* the buffers held by packetPool
    pkts,       \* the caller's Packet values, the targets of ReadPacket
    res,        \* what the last call returned
    panicked,   \* a call panicked (nil dereference, slice bounds out of range)
    ops,        \* history: number of calls made so far
    snap,       \* history: the payload octets of each pkts[s] when ReadPacket returned it
    rt,         \* history: the WritePacket call of a write-then-read round trip
    lastFail,   \* history: how the last failed ReadPacket/WritePacket of the container failed
    iter,       \* history: progress of "create, write K packets, close, reopen, read all"
    th,         \* the goroutines calling into one container: where each is in its call, its locals
    locks,      \* pcap.mx (the goroutines holding a read lock, the one holding the write lock)
                \* and pcap.closeMx (the goroutine holding it); 0 is nobody
    acct        \* history: octets written by successful WritePacket calls and octets read
                \* by the ReadAt calls of ReadPacket since the goroutines started

vars == << disk, rd, pcap, bufs, pooled, pkts, res, panicked, ops, snap, rt, lastFail, iter,
           th, locks, acct >>
\* The state of the goroutines; a single caller leaves it alone.
conc == << th, locks, acct >>

BufIds == 1..(NSlots + 1)
Slots == 1..NSlots

\* The zero Packet (new(Packet)): nil Data is buffer 0.
ZeroPacket == [Index |-> 0, PacketType |-> 0, Timestamp |-> 0, Len |-> 0, buf |-> 0, dlen |-> 0]
\* p.Data of a Packet returned by ReadPacket: a slice of a backing array.
DataOf(p) == IF p.buf = 0 THEN << >> ELSE SubSeq(bufs[p.buf], 1, p.dlen)

NoPcap == [nil |-> TRUE]
NoHandle == [open |-> FALSE, mode |-> "none", pos |-> 0, closes |-> 0]
\* A call's record: the operation, its argument (ReadPacket: the slot p points
\* to; WritePacket: the packet), the count and the error it returned, and
\* the Offset of a *ParseError.
Res(op, arg, n, err, off) == [op |-> op, arg |-> arg, n |-> n, err |-> err, off |-> off]
NoRes == Res("none", 0, 0, "nil", 0)
NoRt == [armed |-> FALSE, p |-> ZeroPacket, n |-> 0]
NoIter == [st |-> "off", k |-> 0, nx |-> 0]

\* The goroutines and what each holds while it is inside a call: the scratch
\* buffer b, the offset it loaded, the count n and error of its last ReadAt or
\* Write, the decoded packet header h, the argument p of WritePacket, and pkt,
\* the Packet its ReadPacket calls fill.
Threads == 1..NThreads
NoPacketHeader == [ok |-> FALSE, erroffset |-> 0, err |-> "nil"]
Idle ==
    [pc |-> "idle", b |-> 0, off |-> 0, n |-> 0, err |-> "nil", h |-> NoPacketHeader,
     p |-> ZeroPacket, pkt |-> ZeroPacket, ret |-> NoRes, hdrAt |-> 0, payAt |-> 0]
NoLocks == [mxR |-> {}, mxW |-> 0, closeMx |-> 0]
NoAcct == [w |-> 0, r |-> 0, fsize0 |-> 0, offset0 |-> 0, closes |-> 0, won |-> 0, lost |-> 0]

Live == pcap # NoPcap /\ ~panicked /\ ops < MaxOps

(***************************************************************************)
(* Inputs.                                                                 *)
(***************************************************************************)
MaxPayload == MaxSnapLength - minPacketSize
\* (Octets of the model stay below 128: a 32-bit field read from any four of
\* them then fits the integers of the model checker.)
Payload(n) == [i \in 1..n |-> 100 + i]
WPacket(ix, pt, ts, ln, data) ==
    [Index |-> ix, PacketType |-> pt, Timestamp |-> ts, Len |-> ln, Data |-> data]

\* Packets ReadPacket accepts: a known class, a nonzero timestamp, Len = len(Data).
ValidPackets ==
    { WPacket(0, PacketTypeUnicast, 1, 0, << >>),
      WPacket(127, PacketTypeMulticast, 16909060, MaxPayload, Payload(MaxPayload)) }
\* Packets WritePacket is also handed: a zero timestamp, a payload over the
\* snap length, and Len different from len(Data).
OtherPackets ==
    { WPacket(4, PacketTypeBroadcast, 0, 1, Payload(1)),
      WPacket(4, PacketTypeBroadcast, 258, MaxPayload + 1, Payload(MaxPayload + 1)),
      WPacket(4, PacketTypeBroadcast, 258, MaxPayload, Payload(1)),
      WPacket(4, PacketTypeBroadcast, 258, MaxPayload + 1, << >>) }
WPackets == ValidPackets \cup OtherPackets
IsValidPacket(p) ==
    /\ p.PacketType \in {PacketTypeBroadcast, PacketTypeUnicast, PacketTypeMulticast}
    /\ p.Timestamp # 0
    /\ p.Len = Len(p.Data)

Frame(p) == marshalPacketHeader(p) \o p.Data

\* Octets a failing Write has put into the file before its error.
PartialCuts == {0, minPacketSize}
ReadFaults == {"none", "hdr", "payload"}
LinkTypes == {LinkTypeFDDI}

\* Files found at the path before the program runs.
P1 == WPacket(4, PacketTypeBroadcast, 258, 1, Payload(1))
P0 == WPacket(0, PacketTypeUnicast, 1, 0, << >>)
P2 == WPacket(7, PacketTypeMulticast, 65536, 2, Payload(2))
HeaderFiles ==
    { marshalFileHeader(FileHeader(mx, major, minor, MaxSnapLength, link)) :
        mx \in {lpcapmx, lpcapmx + 1}, major \in {0, 1}, minor \in {0, 4},
        link \in {LinkTypeNull, 2, LinkTypeEthernet2, LinkTypeEthernet80211, LinkTypeFDDI} }
GoodHeader(snapLen) ==
    marshalFileHeader(FileHeader(lpcapmx, 1, 4, snapLen, LinkTypeEthernet80211))
FrameFiles ==
    { GoodHeader(MaxSnapLength) \o Frame(P1),
      GoodHeader(MaxSnapLength) \o Frame(P0) \o Frame(P2),
      GoodHeader(MaxSnapLength) \o SubSeq(Frame(P1), 1, 5),
      GoodHeader(MaxSnapLength) \o SubSeq(Frame(P2), 1, 11),
      GoodHeader(MaxSnapLength) \o Frame(WPacket(4, 3, 258, 1, Payload(1))),
      GoodHeader(MaxSnapLength) \o Frame(WPacket(4, PacketTypeUnicast, 0, 1, Payload(1))),
      GoodHeader(1) \o Frame(P2),
      GoodHeader(MaxSnapLength)
          \o Frame(WPacket(4, PacketTypeUnicast, 9, MaxSnapLength, Payload(MaxSnapLength))),
      GoodHeader(MaxSnapLength + 2)
          \o Frame(WPacket(4, PacketTypeUnicast, 9, MaxSnapLength + 1, Payload(1))) }
ShortFiles == { << >>, << 62, 79 >>, SubSeq(GoodHeader(MaxSnapLength), 1, 13), << 1, 2, 3 >> }
InitFiles == ShortFiles \cup HeaderFiles \cup FrameFiles

Init ==
    /\ disk \in InitFiles
    /\ rd = NoHandle
    /\ pcap = NoPcap
    /\ bufs = [b \in BufIds |-> Zeros(MaxSnapLength)]
    /\ pooled = {}
    /\ pkts = [s \in Slots |-> ZeroPacket]
    /\ res = NoRes
    /\ panicked = FALSE
    /\ ops = 0
    /\ snap = [s \in Slots |-> << >>]
    /\ rt = NoRt
    /\ lastFail = "none"
    /\ iter = NoIter
    /\ th = [t \in Threads |-> Idle]
    /\ locks = NoLocks
    /\ acct = NoAcct

(***************************************************************************)
(* The byte store: an *os.File.                                            *)
(***************************************************************************)
\* f.ReadAt(b, off) with len(b) = n: the octets read, their number and the
\* error.  Fewer than n octets come with io.EOF; an empty b reads nothing
\* and returns no error; a closed file returns os.ErrClosed.
ReadAt(n, off, fault) ==
    IF ~rd.open THEN [n |-> 0, err |-> "closed", bytes |-> << >>]
    ELSE IF fault THEN [n |-> 0, err |-> "io", bytes |-> << >>]
    ELSE LET k == Min(n, Max(0, Len(disk) - off))
         IN  [n |-> k, err |-> IF k < n THEN "eof" ELSE "nil",
              bytes |-> SubSeq(disk, off + 1, off + k)]

\* The file after k octets of b are written at position pos.
WriteAt(d, pos, b, k) ==
    [i \in 1..Max(Len(d), pos + k) |->
        IF i > pos /\ i <= pos + k THEN b[i - pos] ELSE d[i]]

\* The numbers of octets f.Write(b) may report, len(b) = n: all of them when
\* they fit on the volume, or fewer with an error (io.Writer: n < len(b)
\* comes with a non-nil error).  A closed or read-only file writes nothing.
WriteCounts(n) ==
    IF ~rd.open \/ rd.mode # "rw" THEN {0}
    ELSE { k \in PartialCuts \cup {n} : k <= n /\ rd.pos + k <= MaxFile }

(***************************************************************************)
(* packetPool: a sync.Pool of make([]byte, 0, MaxSnapLength).              *)
(***************************************************************************)
\* Buffers some Packet of the caller still references.
Referenced(pk) == { pk[s].buf : s \in Slots } \ {0}
\* packetPool.Get(): any pooled buffer, or (the pool may be empty, or drop
\* its items at any time) a new zeroed one from New.
\* (A pooled buffer no Packet references stands for the new one when every
\* other buffer is in use: the pool dropped it and New made it again.)
FreshBuf ==
    LET free == { b \in BufIds : b \notin Referenced(pkts) }
    IN  IF free \ pooled # {} THEN CHOOSE b \in free \ pooled : TRUE
        ELSE CHOOSE b \in free : TRUE
PoolGet == { [id |-> b, fresh |-> FALSE] : b \in pooled } \cup { [id |-> FreshBuf, fresh |-> TRUE] }
Leased(g) == IF g.fresh THEN Zeros(MaxSnapLength) ELSE bufs[g.id]
\* Backing arrays nothing references any more are garbage: they are kept
\* zeroed, as a later New makes them.
Collect(bf, pl, pk) ==
    [b \in BufIds |-> IF b \in pl \/ b \in Referenced(pk) THEN bf[b] ELSE Zeros(MaxSnapLength)]

(***************************************************************************)
(* ReadPacket.                                                             *)
(***************************************************************************)
\* line 215: atomic.AddInt32(&pcap.len, 1); the mutant leaves the counter.
AddLen_skipped(pc) == pc
AddLen(pc) == [pc EXCEPT !.len = @ + 1]

\* lines 179-183 and 199-203: the classification of a failed ReadAt.
readErrCode_swapped(err) == IF err = "eof" THEN ErrRead ELSE ErrNoMorePacket
readErrCode(err) == IF err = "eof" THEN ErrNoMorePacket ELSE ErrRead

Outcome(pc, bf, pl, pk, rs, pan) ==
    [pcap |-> pc, bufs |-> bf, pooled |-> pl, pkts |-> pk, res |-> rs, panicked |-> pan]

\* func (pcap *PCAP) ReadPacket(p *Packet) (n int, err error), p = &pkts[s],
\* g the buffer packetPool.Get() returns, fault an I/O error of the store.
ReadPacketCall(s, g, fault) ==
    LET id == g.id
        pl0 == pooled \ {id}
        r1 == ReadAt(minPacketSize, pcap.offset, fault = "hdr")
        \* b = b[:minPacketSize]; ReadAt fills what it read
        b1 == Overlay(Leased(g), 0, r1.bytes, minPacketSize)
        bf1 == [bufs EXCEPT ![id] = b1]
        off1 == pcap.offset + r1.n
    IN  IF r1.err # "nil"
        THEN Outcome([pcap EXCEPT !.lasterr = readErrCode(r1.err)], bf1, pl0, pkts,
                     Res("ReadPacket", s, 0, r1.err, 0), FALSE)
        ELSE IF pcap.h = NilHeader
        THEN Outcome([pcap EXCEPT !.offset = off1], bf1, pl0, pkts,
                     Res("ReadPacket", s, 0, "panic", 0), TRUE)
        ELSE
        LET ph == unmarshalPacketHeader(SubSeq(b1, 1, minPacketSize), pcap.h.snapLen)
        IN  IF ~ph.ok
            THEN Outcome([pcap EXCEPT !.offset = off1, !.lasterr = ErrInvalidHeader],
                         bf1, pl0, pkts,
                         Res("ReadPacket", s, 0, "parse", ph.erroffset + off1), FALSE)
            ELSE IF ph.len > MaxSnapLength
            \* b = b[:h.len] beyond cap(b): slice bounds out of range
            THEN Outcome([pcap EXCEPT !.offset = off1], bf1, pl0, pkts,
                         Res("ReadPacket", s, 0, "panic", 0), TRUE)
            ELSE
            LET r2 == ReadAt(ph.len, off1, fault = "payload")
                b2 == Overlay(b1, 0, r2.bytes, ph.len)
                bf2 == [bufs EXCEPT ![id] = b2]
            IN  IF r2.err # "nil"
                THEN Outcome([pcap EXCEPT !.offset = off1, !.lasterr = readErrCode(r2.err)],
                             bf2, pl0, pkts, Res("ReadPacket", s, 0, r2.err, 0), FALSE)
                ELSE Outcome([AddLen(pcap) EXCEPT !.offset = off1 + r2.n],
                             bf2, pl0 \cup {id},
                             [pkts EXCEPT ![s] =
                                 [Index |-> ph.ifindex, PacketType |-> ph.ptype,
                                  Timestamp |-> ph.timestamp, Len |-> ph.len,
                                  buf |-> id, dlen |-> ph.len]],
                             Res("ReadPacket", s, minPacketSize + r2.n, "nil", 0), FALSE)

\* Next(): offset < fsize
HasNext == pcap.offset < pcap.fsize

FailKind(rs) == IF rs.err \in {"nil", "panic"} THEN lastFail ELSE rs.err

ReadPacket(s, g, fault) ==
    /\ Live
    /\ LET o == ReadPacketCall(s, g, fault)
       IN  /\ pcap' = o.pcap
           /\ pooled' = o.pooled
           /\ pkts' = o.pkts
           /\ bufs' = Collect(o.bufs, o.pooled, o.pkts)
           /\ res' = o.res
           /\ panicked' = o.panicked
           /\ snap' = IF o.res.err = "nil"
                      THEN [snap EXCEPT ![s] = SubSeq(o.bufs[o.pkts[s].buf], 1, o.pkts[s].dlen)]
                      ELSE snap
           /\ rt' = IF res.op = "WritePacket" /\ fault = "none" THEN rt ELSE NoRt
           /\ lastFail' = FailKind(o.res)
           /\ iter' = IF iter.st = "reading" /\ HasNext /\ fault = "none"
                      THEN [iter EXCEPT !.nx = @ + 1]
                      ELSE NoIter
    /\ ops' = ops + 1
    /\ UNCHANGED << disk, rd >>
    /\ UNCHANGED conc

(***************************************************************************)
(* WritePacket.                                                            *)
(***************************************************************************)
\* A mutant of isOverflow: the header size is left out of the comparison.
isOverflow_noHeader(p, snapLen) == Len(p.Data) > snapLen
\* line 223: isOverflow := len(p.Data)+minPacketSize > int(pcap.h.snapLen)
isOverflow(p, snapLen) == Len(p.Data) + minPacketSize > snapLen

WOutcome(o, d, pos) == [o |-> o, disk |-> d, pos |-> pos]

\* func (pcap *PCAP) WritePacket(p Packet) (n int, err error), g the buffer
\* packetPool.Get() returns, k the number of octets the store writes.
WritePacketCall(p, g, k) ==
    IF pcap.h = NilHeader
    THEN WOutcome(Outcome(pcap, bufs, pooled, pkts, Res("WritePacket", p, 0, "panic", 0), TRUE),
                  disk, rd.pos)
    ELSE IF isOverflow(p, pcap.h.snapLen)
    THEN WOutcome(Outcome([pcap EXCEPT !.lasterr = ErrSizeOverflow], bufs, pooled, pkts,
                          Res("WritePacket", p, 0, "overflow", 0), FALSE),
                  disk, rd.pos)
    ELSE
    LET id == g.id
        pl0 == pooled \ {id}
        n == minPacketSize + p.Len
    IN  IF n > MaxSnapLength
        \* b = b[:minPacketSize+p.Len] beyond cap(b): slice bounds out of range
        THEN WOutcome(Outcome(pcap, bufs, pl0, pkts, Res("WritePacket", p, 0, "panic", 0), TRUE),
                      disk, rd.pos)
        ELSE
        LET b1 == Overlay(Leased(g), 0, marshalPacketHeader(p), n)
            \* copy(b[offset:], p.Data) copies min(len(b)-offset, len(p.Data)) octets
            b2 == Overlay(b1, minPacketSize, p.Data, n)
            bf == [bufs EXCEPT ![id] = b2]
            d == WriteAt(disk, rd.pos, SubSeq(b2, 1, n), k)
        IN  IF k < n
            THEN WOutcome(Outcome([pcap EXCEPT !.lasterr = ErrWrite], bf, pl0, pkts,
                                  Res("WritePacket", p, 0, "write", 0), FALSE),
                          d, rd.pos + k)
            ELSE WOutcome(Outcome([pcap EXCEPT !.fsize = @ + k], bf, pl0 \cup {id}, pkts,
                                  Res("WritePacket", p, k, "nil", 0), FALSE),
                          d, rd.pos + k)

WritePacket(p, g, k) ==
    /\ Live
    /\ LET w == WritePacketCall(p, g, k)
           o == w.o
       IN  /\ pcap' = o.pcap
           /\ pooled' = o.pooled
           /\ pkts' = o.pkts
           /\ bufs' = Collect(o.bufs, o.pooled, o.pkts)
           /\ res' = o.res
           /\ panicked' = o.panicked
           /\ disk' = w.disk
           /\ rd' = [rd EXCEPT !.pos = w.pos]
           /\ rt' = IF /\ pcap.by = "Create" /\ ~pcap.isClosed
                       /\ pcap.offset = pcap.fsize
                       /\ IsValidPacket(p)
                       /\ o.res.err = "nil"
                    THEN [armed |-> TRUE, p |-> p, n |-> o.res.n]
                    ELSE NoRt
           /\ lastFail' = FailKind(o.res)
           /\ iter' = IF iter.st = "writing" /\ o.res.err = "nil" /\ IsValidPacket(p)
                      THEN [iter EXCEPT !.k = @ + 1]
                      ELSE NoIter
    /\ ops' = ops + 1
    /\ UNCHANGED snap
    /\ UNCHANGED conc

(***************************************************************************)
(* Close and the accessors.                                                *)
(***************************************************************************)
\* A mutant of CloseFields: the closed flag is not set.
CloseFields_notMarked(pc) ==
    [pc EXCEPT !.h = NilHeader, !.len = 0, !.offset = 0, !.lasterr = ErrOk, !.fsize = 0]
\* lines 266-271: the fields after the first Close.
CloseFields(pc) ==
    [pc EXCEPT !.h = NilHeader, !.len = 0, !.offset = 0, !.isClosed = TRUE,
               !.lasterr = ErrOk, !.fsize = 0]

\* func (pcap *PCAP) Close() error; closeErr: the file's Close reports an error.
Close(closeErr) ==
    /\ Live
    /\ IF pcap.isClosed
       THEN /\ res' = Res("Close", 0, 0, "already closed", 0)
            /\ UNCHANGED << pcap, rd >>
       ELSE /\ pcap' = CloseFields(pcap)
            /\ rd' = [rd EXCEPT !.open = FALSE, !.closes = @ + 1]
            /\ res' = Res("Close", 0, 0, IF closeErr THEN "io" ELSE "nil", 0)
    /\ rt' = NoRt
    /\ lastFail' = IF pcap.isClosed THEN lastFail ELSE "none"
    /\ iter' = IF iter.st = "writing" /\ ~pcap.isClosed /\ ~closeErr
               THEN [iter EXCEPT !.st = "closed"]
               ELSE NoIter
    /\ ops' = ops + 1
    /\ UNCHANGED << disk, bufs, pooled, pkts, panicked, snap >>
    /\ UNCHANGED conc

\* Len(), LastError()
PacketCount == pcap.len
LastError == pcap.lasterr

\* func (pcap *PCAP) SetLinkType(lt LinkType): pcap.h.link = lt
SetLinkType(lt) ==
    /\ Live
    /\ IF pcap.h = NilHeader
       THEN /\ panicked' = TRUE
            /\ res' = Res("SetLinkType", lt, 0, "panic", 0)
            /\ pcap' = pcap
       ELSE /\ panicked' = FALSE
            /\ res' = Res("SetLinkType", lt, 0, "nil", 0)
            /\ pcap' = [pcap EXCEPT !.h.link = lt]
    /\ rt' = NoRt
    /\ iter' = NoIter
    /\ ops' = ops + 1
    /\ UNCHANGED << disk, rd, bufs, pooled, pkts, snap, lastFail >>
    /\ UNCHANGED conc

\* func (pcap *PCAP) LinkType() LinkType: return pcap.h.link (a nil
\* dereference once Close has cleared pcap.h)
LinkType == IF pcap.h = NilHeader THEN "panic" ELSE pcap.h.link

(***************************************************************************)
(* Create and Open.                                                        *)
(***************************************************************************)
NoContainer ==
    /\ ~panicked
    /\ IF pcap = NoPcap THEN TRUE ELSE pcap.isClosed
    /\ ops < MaxOps

\* lines 96-110: the header Create builds.
DefaultHeader == FileHeader(lpcapmx, MajorVer, MinorVer, MaxSnapLength, LinkTypeEthernet2)

\* func Create(path string) (*PCAP, error).  os.OpenFile(O_RDWR|O_CREATE)
\* keeps what a file already at the path holds and starts at position 0.
\* fault: OpenFile fails, or the header write fails.
Create(fault) ==
    /\ NoContainer
    /\ IF fault = "none"
       THEN LET b == marshalFileHeader(DefaultHeader)
                n == Len(b)
            IN  /\ disk' = WriteAt(disk, 0, b, n)
                /\ rd' = [open |-> TRUE, mode |-> "rw", pos |-> n, closes |-> 0]
                /\ pcap' = [h |-> DefaultHeader, len |-> 0, offset |-> 0 + n,
                            isClosed |-> FALSE, lasterr |-> ErrOk, fsize |-> minFileSize,
                            by |-> "Create"]
                /\ res' = Res("Create", 0, 0, "nil", 0)
       ELSE /\ disk' = disk
            /\ rd' = NoHandle
            /\ pcap' = NoPcap
            /\ res' = Res("Create", 0, 0, fault, 0)
    /\ ops' = ops + 1
    /\ rt' = NoRt
    /\ lastFail' = "none"
    /\ iter' = IF fault = "none" /\ disk = << >>
               THEN [st |-> "writing", k |-> 0, nx |-> 0]
               ELSE NoIter
    /\ UNCHANGED << bufs, pooled, pkts, panicked, snap >>
    /\ UNCHANGED conc

\* What Open returns: the container, or the error and its ParseError offset.
OpenCall ==
    IF disk = << >> THEN [pcap |-> NoPcap, err |-> "open", off |-> 0]
    ELSE IF Len(disk) < minFileSize THEN [pcap |-> NoPcap, err |-> "small", off |-> 0]
    ELSE LET n == minFileSize
             u == unmarshalFileHeader(SubSeq(disk, 1, minFileSize))
         IN  IF u.err # "nil"
             THEN [pcap |-> NoPcap, err |-> "parse", off |-> u.erroffset]
             ELSE [pcap |-> [h |-> u.h, len |-> 0, offset |-> n, isClosed |-> FALSE,
                             lasterr |-> ErrOk, fsize |-> Len(disk), by |-> "Open"],
                   err |-> "nil", off |-> 0]

\* func Open(path string) (*PCAP, error): os.Open gives a read-only file.
Open ==
    /\ NoContainer
    /\ LET o == OpenCall
       IN  /\ pcap' = o.pcap
           /\ res' = Res("Open", 0, 0, o.err, o.off)
           /\ rd' = IF o.err = "nil"
                    THEN [open |-> TRUE, mode |-> "ro", pos |-> 0, closes |-> 0]
                    ELSE NoHandle
           /\ iter' = IF iter.st = "closed"
                      THEN [iter EXCEPT !.st = IF o.err = "nil" THEN "reading" ELSE "openfail"]
                      ELSE NoIter
    /\ ops' = ops + 1
    /\ rt' = NoRt
    /\ lastFail' = "none"
    /\ UNCHANGED << disk, bufs, pooled, pkts, panicked, snap >>
    /\ UNCHANGED conc

(***************************************************************************)
(* The specification: any sequence of calls by one caller.                 *)
(***************************************************************************)
Next ==
    \/ \E fault \in {"none", "open", "write"} : Create(fault)
    \/ Open
    \/ \E s \in Slots, g \in PoolGet, fault \in ReadFaults : ReadPacket(s, g, fault)
    \/ \E p \in WPackets, g \in PoolGet :
           \E k \in WriteCounts(minPacketSize + p.Len) : WritePacket(p, g, k)
    \/ \E closeErr \in BOOLEAN : Close(closeErr)
    \/ \E lt \in LinkTypes : SetLinkType(lt)

Spec == Init /\ [][Next]_vars

(***************************************************************************)
(* Goroutines: several callers of one container.  Each call is a sequence  *)
(* of steps, one step for each access to what the goroutines share: the    *)
(* fields of the PCAP, the file, the pool and the two mutexes.  A step is  *)
(* named after the line of lpcap.go it models.                             *)
(***************************************************************************)
CBufIds == 1..(2 * NThreads)
\* Buffers a goroutine holds as its scratch buffer or references from the
\* Packet it was handed.
CInUse(thr) == ({ thr[t].b : t \in Threads } \cup { thr[t].pkt.buf : t \in Threads }) \ {0}
\* packetPool.Get() among goroutines: a pooled buffer, or a new zeroed one.
CFreshBuf ==
    LET free == { b \in CBufIds : b \notin CInUse(th) }
        m(S) == CHOOSE b \in S : \A c \in S : b <= c
    IN  IF free \ pooled # {} THEN m(free \ pooled)
        ELSE IF free # {} THEN m(free)
        ELSE 0      \* every goroutine is inside a call and holds its buffer: nobody calls Get
CPoolGet == { [id |-> b, fresh |-> FALSE] : b \in pooled } \cup { [id |-> CFreshBuf, fresh |-> TRUE] }
CCollect(bf, pl, thr) ==
    [b \in CBufIds |-> IF b \in pl \/ b \in CInUse(thr) THEN bf[b] ELSE Zeros(MaxSnapLength)]

\* The files and the containers the goroutines start with: a container Create
\* returned for a new path, one Create returned for a path that held frames,
\* and one Open returned for a file of two frames.
CFrames == Frame(P0) \o Frame(P2)
CStarts == {"Create", "CreateOver", "Open"}
CDisk(by) ==
    CASE by = "Create" -> marshalFileHeader(DefaultHeader)
      [] by = "CreateOver" -> marshalFileHeader(DefaultHeader) \o CFrames
      [] by = "Open" -> GoodHeader(MaxSnapLength) \o CFrames
CPcap(by) ==
    IF by = "Open"
    THEN [h |-> unmarshalFileHeader(GoodHeader(MaxSnapLength)).h, len |-> 0,
          offset |-> minFileSize, isClosed |-> FALSE, lasterr |-> ErrOk,
          fsize |-> Len(CDisk(by)), by |-> "Open"]
    ELSE [h |-> DefaultHeader, len |-> 0, offset |-> minFileSize, isClosed |-> FALSE,
          lasterr |-> ErrOk, fsize |-> minFileSize, by |-> "Create"]

CInit ==
    /\ \E by \in CStarts :
          /\ disk = CDisk(by)
          /\ pcap = CPcap(by)
          /\ rd = [open |-> TRUE, mode |-> IF by = "Open" THEN "ro" ELSE "rw",
                   pos |-> IF by = "Open" THEN 0 ELSE minFileSize, closes |-> 0]
          /\ acct = [NoAcct EXCEPT !.fsize0 = CPcap(by).fsize, !.offset0 = minFileSize]
    /\ bufs = [b \in CBufIds |-> Zeros(MaxSnapLength)]
    /\ pooled = {}
    /\ pkts = [s \in Slots |-> ZeroPacket]
    /\ res = NoRes
    /\ panicked = FALSE
    /\ ops = 0
    /\ snap = [s \in Slots |-> << >>]
    /\ rt = NoRt
    /\ lastFail = "none"
    /\ iter = NoIter
    /\ th = [t \in Threads |-> Idle]
    /\ locks = NoLocks

\* What a single caller's history records; the goroutines leave it alone.
seqHist == << pkts, snap, rt, lastFail, iter >>

At(t, pc) == ~panicked /\ th[t].pc = pc
CanCall(t) == At(t, "idle") /\ ops < MaxCalls
\* The goroutine returns rs; the scratch buffer it did not Put is dropped.
Return(t, rs) == [th[t] EXCEPT !.pc = "idle", !.b = 0, !.ret = rs]
Panic(t) == [th[t] EXCEPT !.pc = "panic"]

\* atomic.AddInt64(&pcap.offset, int64(n)) by goroutine t: the value stored.
AddOffset_loadStore(t, n) == th[t].off + n
AddOffset(t, n) == pcap.offset + n

\* lines 174-176: b := packetPool.Get().([]byte); b = b[:0]; b = b[:minPacketSize]
R174_Get(t, g) ==
    /\ CanCall(t)
    /\ th' = [th EXCEPT ![t] = [@ EXCEPT !.pc = "r177", !.b = g.id, !.p = ZeroPacket]]
    /\ bufs' = [bufs EXCEPT ![g.id] = Leased(g)]
    /\ pooled' = pooled \ {g.id}
    /\ ops' = ops + 1
    /\ UNCHANGED << disk, rd, pcap, res, panicked, locks, acct, seqHist >>

\* lines 177 and 197: atomic.LoadInt64(&pcap.offset), the argument of ReadAt
R177_Load(t) ==
    /\ At(t, "r177")
    /\ th' = [th EXCEPT ![t] = [@ EXCEPT !.pc = "r177r", !.off = pcap.offset]]
    /\ UNCHANGED << disk, rd, pcap, bufs, pooled, res, panicked, ops, locks, acct, seqHist >>

\* line 177: n, err = pcap.rd.ReadAt(b, offset)
R177_ReadAt(t) ==
    /\ At(t, "r177r")
    /\ LET r == ReadAt(minPacketSize, th[t].off, FALSE)
       IN  /\ bufs' = [bufs EXCEPT ![th[t].b] = Overlay(@, 0, r.bytes, minPacketSize)]
           /\ th' = [th EXCEPT ![t] =
                        [@ EXCEPT !.pc = IF r.err # "nil" THEN "r179" ELSE "r186",
                                  !.n = r.n, !.err = r.err, !.hdrAt = th[t].off]]
           /\ acct' = IF r.err = "nil" THEN [acct EXCEPT !.r = @ + r.n] ELSE acct
    /\ UNCHANGED << disk, rd, pcap, pooled, res, panicked, ops, locks, seqHist >>

\* lines 179-184 and 199-204: pcap.lasterr = ...; return 0, err
R179_Fail(t) ==
    /\ th[t].pc \in {"r179", "r199"} /\ ~panicked
    /\ pcap' = [pcap EXCEPT !.lasterr = readErrCode(th[t].err)]
    /\ res' = Res("ReadPacket", t, 0, th[t].err, 0)
    /\ th' = [th EXCEPT ![t] = Return(t, res')]
    /\ bufs' = CCollect(bufs, pooled, th')
    /\ UNCHANGED << disk, rd, pooled, panicked, ops, locks, acct, seqHist >>

\* line 186: atomic.AddInt64(&pcap.offset, int64(n))
R186_Add(t) ==
    /\ At(t, "r186")
    /\ pcap' = [pcap EXCEPT !.offset = AddOffset(t, th[t].n)]
    /\ th' = [th EXCEPT ![t] = [@ EXCEPT !.pc = "r189"]]
    /\ UNCHANGED << disk, rd, bufs, pooled, res, panicked, ops, locks, acct, seqHist >>

\* line 189: h, erroffset, err := unmarshalPacketHeader(b, pcap.h.snapLen);
\* pcap.h is nil once a Close has cleared it.
R189_Unmarshal(t) ==
    /\ At(t, "r189")
    /\ IF pcap.h = NilHeader
       THEN /\ th' = [th EXCEPT ![t] = Panic(t)]
            /\ panicked' = TRUE
       ELSE LET ph == unmarshalPacketHeader(SubSeq(bufs[th[t].b], 1, minPacketSize),
                                            pcap.h.snapLen)
            IN  /\ th' = [th EXCEPT ![t] =
                             [@ EXCEPT !.pc = IF ph.ok THEN "r196" ELSE "r191", !.h = ph]]
                /\ panicked' = FALSE
    /\ UNCHANGED << disk, rd, pcap, bufs, pooled, res, ops, locks, acct, seqHist >>

\* line 191: erroffset += atomic.LoadInt64(&pcap.offset)
R191_Load(t) ==
    /\ At(t, "r191")
    /\ th' = [th EXCEPT ![t] = [@ EXCEPT !.pc = "r192", !.off = pcap.offset]]
    /\ UNCHANGED << disk, rd, pcap, bufs, pooled, res, panicked, ops, locks, acct, seqHist >>

\* lines 192-193: pcap.lasterr = ErrInvalidHeader; return 0, &ParseError{...}
R192_Fail(t) ==
    /\ At(t, "r192")
    /\ pcap' = [pcap EXCEPT !.lasterr = ErrInvalidHeader]
    /\ res' = Res("ReadPacket", t, 0, "parse", th[t].h.erroffset + th[t].off)
    /\ th' = [th EXCEPT ![t] = Return(t, res')]
    /\ bufs' = CCollect(bufs, pooled, th')
    /\ UNCHANGED << disk, rd, pooled, panicked, ops, locks, acct, seqHist >>

\* lines 196-197: b = b[:h.len] (beyond cap(b): slice bounds out of range);
\* atomic.LoadInt64(&pcap.offset)
R196_Load(t) ==
    /\ At(t, "r196")
    /\ IF th[t].h.len > MaxSnapLength
       THEN /\ th' = [th EXCEPT ![t] = Panic(t)]
            /\ panicked' = TRUE
       ELSE /\ th' = [th EXCEPT ![t] = [@ EXCEPT !.pc = "r197", !.off = pcap.offset]]
            /\ panicked' = FALSE
    /\ UNCHANGED << disk, rd, pcap, bufs, pooled, res, ops, locks, acct, seqHist >>

\* line 197: n, err = pcap.rd.ReadAt(b, offset)
R197_ReadAt(t) ==
    /\ At(t, "r197")
    /\ LET r == ReadAt(th[t].h.len, th[t].off, FALSE)
       IN  /\ bufs' = [bufs EXCEPT ![th[t].b] = Overlay(@, 0, r.bytes, th[t].h.len)]
           /\ th' = [th EXCEPT ![t] =
                        [@ EXCEPT !.pc = IF r.err # "nil" THEN "r199" ELSE "r206",
                                  !.n = r.n, !.err = r.err, !.payAt = th[t].off]]
           /\ acct' = IF r.err = "nil" THEN [acct EXCEPT !.r = @ + r.n] ELSE acct
    /\ UNCHANGED << disk, rd, pcap, pooled, res, panicked, ops, locks, seqHist >>

\* lines 206-214: packetPool.Put(b); *p = Packet{..., Data: b}
R206_Put(t) ==
    /\ At(t, "r206")
    /\ pooled' = pooled \cup {th[t].b}
    /\ th' = [th EXCEPT ![t] =
                 [@ EXCEPT !.pc = "r215", !.b = 0,
                           !.pkt = [Index |-> th[t].h.ifindex, PacketType |-> th[t].h.ptype,
                                    Timestamp |-> th[t].h.timestamp, Len |-> th[t].h.len,
                                    buf |-> th[t].b, dlen |-> th[t].h.len]]]
    /\ bufs' = CCollect(bufs, pooled', th')
    /\ UNCHANGED << disk, rd, pcap, res, panicked, ops, locks, acct, seqHist >>

\* line 215: atomic.AddInt32(&pcap.len, 1)
R215_Add(t) ==
    /\ At(t, "r215")
    /\ pcap' = AddLen(pcap)
    /\ th' = [th EXCEPT ![t] = [@ EXCEPT !.pc = "r216"]]
    /\ UNCHANGED << disk, rd, bufs, pooled, res, panicked, ops, locks, acct, seqHist >>

\* lines 216-217: atomic.AddInt64(&pcap.offset, int64(n)); return minPacketSize + n, nil
R216_Add(t) ==
    /\ At(t, "r216")
    /\ pcap' = [pcap EXCEPT !.offset = AddOffset(t, th[t].n)]
    /\ res' = Res("ReadPacket", t, minPacketSize + th[t].n, "nil", 0)
    /\ th' = [th EXCEPT ![t] = Return(t, res')]
    /\ UNCHANGED << disk, rd, bufs, pooled, panicked, ops, locks, acct, seqHist >>

\* Packets the goroutines write.
CPackets ==
    { WPacket(0, PacketTypeUnicast, 1, 0, << >>),
      WPacket(4, PacketTypeBroadcast, 258, 1, Payload(1)),
      WPacket(4, PacketTypeBroadcast, 258, MaxPayload + 1, Payload(MaxPayload + 1)) }

\* line 223: isOverflow := len(p.Data)+minPacketSize > int(pcap.h.snapLen)
W223_Overflow(t, p) ==
    /\ CanCall(t)
    /\ IF pcap.h = NilHeader
       THEN /\ th' = [th EXCEPT ![t] = Panic(t)]
            /\ panicked' = TRUE
       ELSE /\ th' = [th EXCEPT ![t] =
                         [@ EXCEPT !.pc = IF isOverflow(p, pcap.h.snapLen) THEN "w225" ELSE "w230",
                                   !.p = p]]
            /\ panicked' = FALSE
    /\ ops' = ops + 1
    /\ UNCHANGED << disk, rd, pcap, bufs, pooled, res, locks, acct, seqHist >>

\* lines 225-226: pcap.lasterr = ErrSizeOverflow; return 0, errors.New(...)
W225_Fail(t) ==
    /\ At(t, "w225")
    /\ pcap' = [pcap EXCEPT !.lasterr = ErrSizeOverflow]
    /\ res' = Res("WritePacket", t, 0, "overflow", 0)
    /\ th' = [th EXCEPT ![t] = Return(t, res')]
    /\ UNCHANGED << disk, rd, bufs, pooled, panicked, ops, locks, acct, seqHist >>

\* lines 230-240: b := packetPool.Get(); b = b[:minPacketSize+p.Len] (beyond
\* cap(b): slice bounds out of range); the header and the payload are put in b
W230_Get(t, g) ==
    /\ At(t, "w230")
    /\ LET p == th[t].p
           n == minPacketSize + p.Len
       IN  IF n > MaxSnapLength
           THEN /\ th' = [th EXCEPT ![t] = Panic(t)]
                /\ panicked' = TRUE
                /\ bufs' = bufs
           ELSE /\ th' = [th EXCEPT ![t] = [@ EXCEPT !.pc = "w241", !.b = g.id, !.n = n]]
                /\ panicked' = FALSE
                /\ bufs' = [bufs EXCEPT ![g.id] =
                               Overlay(Overlay(Leased(g), 0, marshalPacketHeader(p), n),
                                       minPacketSize, p.Data, n)]
    /\ pooled' = pooled \ {g.id}
    /\ UNCHANGED << disk, rd, pcap, res, ops, locks, acct, seqHist >>

\* line 241: n, err = pcap.rd.Write(b); the store writes k octets
W241_Write(t, k) ==
    /\ At(t, "w241")
    /\ disk' = WriteAt(disk, rd.pos, SubSeq(bufs[th[t].b], 1, th[t].n), k)
    /\ rd' = [rd EXCEPT !.pos = @ + k]
    /\ th' = [th EXCEPT ![t] =
                 [@ EXCEPT !.pc = IF k < th[t].n THEN "w243" ELSE "w246",
                           !.err = IF k < th[t].n THEN "write" ELSE "nil", !.n = k]]
    /\ UNCHANGED << pcap, bufs, pooled, res, panicked, ops, locks, acct, seqHist >>

\* lines 243-244: pcap.lasterr = ErrWrite; return 0, err
W243_Fail(t) ==
    /\ At(t, "w243")
    /\ pcap' = [pcap EXCEPT !.lasterr = ErrWrite]
    /\ res' = Res("WritePacket", t, 0, "write", 0)
    /\ th' = [th EXCEPT ![t] = Return(t, res')]
    /\ bufs' = CCollect(bufs, pooled, th')
    /\ UNCHANGED << disk, rd, pooled, panicked, ops, locks, acct, seqHist >>

\* line 246: atomic.AddInt64(&pcap.fsize, int64(n))
W246_Add(t) ==
    /\ At(t, "w246")
    /\ pcap' = [pcap EXCEPT !.fsize = @ + th[t].n]
    /\ th' = [th EXCEPT ![t] = [@ EXCEPT !.pc = "w247"]]
    /\ UNCHANGED << disk, rd, bufs, pooled, res, panicked, ops, locks, acct, seqHist >>

\* lines 247-248: packetPool.Put(b); return n, err
W247_Put(t) ==
    /\ At(t, "w247")
    /\ pooled' = pooled \cup {th[t].b}
    /\ res' = Res("WritePacket", t, th[t].n, "nil", 0)
    /\ th' = [th EXCEPT ![t] = Return(t, res')]
    /\ acct' = [acct EXCEPT !.w = @ + th[t].n]
    /\ UNCHANGED << disk, rd, pcap, bufs, panicked, ops, locks, seqHist >>

\* pcap.closeMx.Lock() succeeds when nobody holds the mutex.
closeMxFree_always(holder) == TRUE
closeMxFree(holder) == holder = 0

\* line 261: pcap.closeMx.Lock()
C261_Lock(t) ==
    /\ CanCall(t)
    /\ closeMxFree(locks.closeMx)
    /\ locks' = [locks EXCEPT !.closeMx = t]
    /\ th' = [th EXCEPT ![t] = [@ EXCEPT !.pc = "c263"]]
    /\ acct' = [acct EXCEPT !.closes = @ + 1]
    /\ ops' = ops + 1
    /\ UNCHANGED << disk, rd, pcap, bufs, pooled, res, panicked, seqHist >>

\* lines 263-265: if pcap.isClosed { return errors.New("file is already
\* closed") }; the deferred closeMx.Unlock() runs as the call returns
C263_IsClosed(t) ==
    /\ At(t, "c263")
    /\ IF pcap.isClosed
       THEN /\ res' = Res("Close", t, 0, "already closed", 0)
            /\ th' = [th EXCEPT ![t] = Return(t, res')]
            /\ locks' = [locks EXCEPT !.closeMx = IF @ = t THEN 0 ELSE @]
            /\ acct' = [acct EXCEPT !.lost = @ + 1]
       ELSE /\ th' = [th EXCEPT ![t] = [@ EXCEPT !.pc = "c266"]]
            /\ UNCHANGED << res, locks, acct >>
    /\ UNCHANGED << disk, rd, pcap, bufs, pooled, panicked, ops, seqHist >>

\* lines 266-271, a step for each assignment
CloseSteps ==
    << [at |-> "c266", to |-> "c267"], [at |-> "c267", to |-> "c268"],
       [at |-> "c268", to |-> "c269"], [at |-> "c269", to |-> "c270"],
       [at |-> "c270", to |-> "c271"], [at |-> "c271", to |-> "c272"] >>
CloseAssign(pc, i) ==
    CASE i = 1 -> [pc EXCEPT !.h = NilHeader]
      [] i = 2 -> [pc EXCEPT !.len = 0]
      [] i = 3 -> [pc EXCEPT !.offset = 0]
      [] i = 4 -> [pc EXCEPT !.isClosed = TRUE]
      [] i = 5 -> [pc EXCEPT !.lasterr = ErrOk]
      [] i = 6 -> [pc EXCEPT !.fsize = 0]
C266_Assign(t, i) ==
    /\ At(t, CloseSteps[i].at)
    /\ pcap' = CloseAssign(pcap, i)
    /\ th' = [th EXCEPT ![t] = [@ EXCEPT !.pc = CloseSteps[i].to]]
    /\ UNCHANGED << disk, rd, bufs, pooled, res, panicked, ops, locks, acct, seqHist >>

\* lines 272-273: err := pcap.rd.Close(); return err (and closeMx.Unlock())
C272_Close(t) ==
    /\ At(t, "c272")
    /\ rd' = [rd EXCEPT !.open = FALSE, !.closes = @ + 1]
    /\ res' = Res("Close", t, 0, IF rd.open THEN "nil" ELSE "closed", 0)
    /\ th' = [th EXCEPT ![t] = Return(t, res')]
    /\ locks' = [locks EXCEPT !.closeMx = IF @ = t THEN 0 ELSE @]
    /\ acct' = [acct EXCEPT !.won = @ + 1]
    /\ UNCHANGED << disk, pcap, bufs, pooled, panicked, ops, seqHist >>

\* lines 253 and 293: pcap.mx.RLock(), in Next() and in LastError()
N253_RLock(t, op) ==
    /\ CanCall(t)
    /\ locks.mxW = 0
    /\ locks' = [locks EXCEPT !.mxR = @ \cup {t}]
    /\ th' = [th EXCEPT ![t] = [@ EXCEPT !.pc = IF op = "Next" THEN "n254" ELSE "e294"]]
    /\ ops' = ops + 1
    /\ UNCHANGED << disk, rd, pcap, bufs, pooled, res, panicked, acct, seqHist >>

\* lines 254 and 294: hasNext := pcap.offset < pcap.fsize; e := pcap.lasterr
N254_Read(t) ==
    /\ th[t].pc \in {"n254", "e294"} /\ ~panicked
    /\ th' = [th EXCEPT ![t] =
                 [@ EXCEPT !.pc = IF @ = "n254" THEN "n255" ELSE "e295",
                           !.n = IF th[t].pc = "n254"
                                 THEN (IF HasNext THEN 1 ELSE 0) ELSE LastError]]
    /\ UNCHANGED << disk, rd, pcap, bufs, pooled, res, panicked, ops, locks, acct, seqHist >>

\* lines 255-256 and 295-296: pcap.mx.RUnlock(); return
N255_RUnlock(t) ==
    /\ th[t].pc \in {"n255", "e295"} /\ ~panicked
    /\ locks' = [locks EXCEPT !.mxR = @ \ {t}]
    /\ res' = Res(IF th[t].pc = "n255" THEN "Next" ELSE "LastError", t, th[t].n, "nil", 0)
    /\ th' = [th EXCEPT ![t] = Return(t, res')]
    /\ UNCHANGED << disk, rd, pcap, bufs, pooled, panicked, ops, acct, seqHist >>

\* The goroutines' specification: any interleaving of the steps of their calls.
CNext ==
    \E t \in Threads :
        \/ \E g \in CPoolGet : R174_Get(t, g)
        \/ R177_Load(t)
        \/ R177_ReadAt(t)
        \/ R179_Fail(t)
        \/ R186_Add(t)
        \/ R189_Unmarshal(t)
        \/ R191_Load(t)
        \/ R192_Fail(t)
        \/ R196_Load(t)
        \/ R197_ReadAt(t)
        \/ R206_Put(t)
        \/ R215_Add(t)
        \/ R216_Add(t)
        \/ \E p \in CPackets : W223_Overflow(t, p)
        \/ W225_Fail(t)
        \/ \E g \in CPoolGet : W230_Get(t, g)
        \/ \E k \in WriteCounts(th[t].n) : W241_Write(t, k)
        \/ W243_Fail(t)
        \/ W246_Add(t)
        \/ W247_Put(t)
        \/ C261_Lock(t)
        \/ C263_IsClosed(t)
        \/ \E i \in 1..Len(CloseSteps) : C266_Assign(t, i)
        \/ C272_Close(t)
        \/ \E op \in {"Next", "LastError"} : N253_RLock(t, op)
        \/ N254_Read(t)
        \/ N255_RUnlock(t)

CSpec == CInit /\ [][CNext]_vars

(***************************************************************************)
(* Properties.                                                             *)
(***************************************************************************)
Container == pcap # NoPcap
\* The step is a call of op (every call counts itself in ops and leaves its
\* record in res).
Called(op) == ops' = ops + 1 /\ res'.op = op

\* C1: round trip.  In a container returned by Create whose cursor equals its
\* size, WritePacket of a valid packet followed by ReadPacket (the store
\* failing in neither call) gives back the same index, class, timestamp,
\* length and payload, and both calls return 10 + length.
C1_RoundTrip ==
    (rt.armed /\ res.op = "ReadPacket") =>
        /\ res.err = "nil"
        /\ rt.n = minPacketSize + rt.p.Len
        /\ res.n = minPacketSize + rt.p.Len
        /\ pkts[res.arg].Index = rt.p.Index
        /\ pkts[res.arg].PacketType = rt.p.PacketType
        /\ pkts[res.arg].Timestamp = rt.p.Timestamp
        /\ pkts[res.arg].Len = rt.p.Len
        /\ DataOf(pkts[res.arg]) = rt.p.Data

\* C2: payload ownership.  The payload of every Packet a successful
\* ReadPacket handed to the caller still holds the octets it was returned
\* with, whatever ReadPacket and WritePacket calls came later.
C2_PayloadOwnership ==
    \A s \in Slots : pkts[s].buf # 0 => DataOf(pkts[s]) = snap[s]

\* C3: iteration termination.  After Create on a fresh path, K successful
\* writes of valid packets and Close, Open returns a container on which a
\* loop "while Next() { ReadPacket }" sees Next() true exactly K times, and
\* Len() is K when Next() has become false.
C3_IterationTermination ==
    /\ iter.st # "openfail"
    /\ iter.st = "reading" =>
          IF HasNext THEN iter.nx < iter.k
          ELSE iter.nx = iter.k /\ PacketCount = iter.k

\* C4: overflow rejection.  A WritePacket call with len(Data) + 10 above the
\* container's snap length returns count 0 and the size-overflow error,
\* records ErrSizeOverflow, and leaves the file, the file position and the
\* tracked size as they were.
C4_OverflowRejection ==
    [][ ( /\ Called("WritePacket")
          /\ pcap.h # NilHeader
          /\ Len(res'.arg.Data) + minPacketSize > pcap.h.snapLen )
        => ( /\ res'.err = "overflow"
             /\ res'.n = 0
             /\ pcap'.lasterr = ErrSizeOverflow
             /\ pcap'.fsize = pcap.fsize
             /\ disk' = disk
             /\ rd' = rd
             /\ ~panicked' ) ]_vars
C4_Witness ==
    /\ res.op = "WritePacket"
    /\ res.err = "overflow"
    /\ pcap.lasterr = ErrSizeOverflow
    /\ Len(res.arg.Data) = MaxPayload + 1

\* C5: closed is terminal.  Once Close has succeeded, every later call on
\* the container fails with a "closed" error and none panics.
C5_ClosedIsTerminal ==
    ( /\ Container
      /\ pcap.isClosed
      /\ ~(res.op = "Close" /\ res.err \in {"nil", "io"}) )
    => ( ~panicked /\ res.err \in {"closed", "already closed"} )

\* C6: idempotent close.  The first Close clears header, cursor, size and
\* packet count, sets the closed flag and last-error Ok and closes the file;
\* every later Close returns "already closed" and changes nothing; the file
\* is closed at most once and the closed flag of a container never goes back
\* to false.
C6_IdempotentClose ==
    [][ /\ (Called("Close") /\ ~pcap.isClosed) =>
              /\ pcap'.h = NilHeader
              /\ pcap'.offset = 0
              /\ pcap'.fsize = 0
              /\ pcap'.len = 0
              /\ pcap'.isClosed
              /\ pcap'.lasterr = ErrOk
              /\ res'.err # "already closed"
              /\ rd'.closes = rd.closes + 1
        /\ (Called("Close") /\ pcap.isClosed) =>
              /\ res'.err = "already closed"
              /\ pcap' = pcap
              /\ rd' = rd
        /\ rd'.closes <= 1
        /\ (Container /\ pcap.isClosed /\ res'.op \notin {"Create", "Open"}) =>
              pcap'.isClosed ]_vars
C6_Witness ==
    /\ res.op = "Close"
    /\ res.err = "already closed"
    /\ pcap.isClosed
    /\ rd.closes = 1

\* C7: header rejection on Open, as claimed: of any store.
HeaderVerdict(d) ==
    IF Len(d) >= 2 /\ Uint16(d, 0) # lpcapmx THEN 0
    ELSE IF Len(d) >= 4 /\ Uint16(d, 2) = 0 THEN 2
    ELSE IF Len(d) >= 6 /\ Uint16(d, 4) = 0 THEN 4
    ELSE IF Len(d) >= 14 /\ Uint32(d, 10) \notin {4, 8} THEN 10
    ELSE -1
C7_HeaderRejection_AnyStore ==
    (res.op = "Open" /\ HeaderVerdict(disk) >= 0) =>
        /\ res.err = "parse"
        /\ res.off = HeaderVerdict(disk)
        /\ ~Container
\* C7 (amended): header rejection on Open of a store of at least 14 octets.
\* Wrong magic fails with a ParseError at offset 0; otherwise a zero major
\* version at offset 2; otherwise a zero minor version at offset 4;
\* otherwise a link type other than 4 and 8 at offset 10; no container is
\* returned.  A shorter store fails with an error that carries no offset.
C7_HeaderRejection ==
    res.op = "Open" =>
        IF disk = << >> THEN res.err = "open" /\ ~Container
        ELSE IF Len(disk) < minFileSize THEN res.err = "small" /\ ~Container
        ELSE IF HeaderVerdict(disk) >= 0
             THEN res.err = "parse" /\ res.off = HeaderVerdict(disk) /\ ~Container
        ELSE res.err = "nil" /\ Container
\* A header whose major version, minor version and link type are all
\* invalid is rejected at the major version.
C7_Witness ==
    /\ res.op = "Open"
    /\ res.err = "parse"
    /\ res.off = 2
    /\ Len(disk) >= minFileSize
    /\ Uint16(disk, 4) = 0
    /\ Uint32(disk, 10) = 0

\* C8, as claimed: link types 0, 2, 4, 8; Create stores 2; Open accepts
\* exactly the stored values 2 and 4.
WellVersioned(d) ==
    Len(d) >= minFileSize /\ Uint16(d, 0) = lpcapmx /\ Uint16(d, 2) # 0 /\ Uint16(d, 4) # 0
C8_LinkTypeEncoding_2_4_8 ==
    /\ (res.op = "Create" /\ res.err = "nil") =>
          /\ << LinkTypeNull, LinkTypeEthernet2, LinkTypeEthernet80211, LinkTypeFDDI >>
                 = << 0, 2, 4, 8 >>
          /\ pcap.h.link = LinkTypeEthernet2
          /\ SubSeq(disk, 11, 14) = << 2, 0, 0, 0 >>
    /\ (res.op = "Open" /\ WellVersioned(disk)) => (res.err = "nil" <=> Uint32(disk, 10) \in {2, 4})
\* C8 (amended): the link-type discriminants are Null=0, Ethernet2=4,
\* Ethernet80211=8, FDDI=16; the header written by Create carries 4 in its
\* last four octets, and Open accepts exactly the stored values 4 and 8.
C8_LinkTypeEncoding ==
    /\ (res.op = "Create" /\ res.err = "nil") =>
          /\ << LinkTypeNull, LinkTypeEthernet2, LinkTypeEthernet80211, LinkTypeFDDI >>
                 = << 0, 4, 8, 16 >>
          /\ pcap.h.link = LinkTypeEthernet2
          /\ SubSeq(disk, 11, 14) = << 4, 0, 0, 0 >>
    /\ (res.op = "Open" /\ WellVersioned(disk)) => (res.err = "nil" <=> Uint32(disk, 10) \in {4, 8})
C8_Witness ==
    /\ res.op = "Create"
    /\ res.err = "nil"
    /\ pcap.h.link = LinkTypeEthernet2
    /\ SubSeq(disk, 11, 14) = << 4, 0, 0, 0 >>

\* The classification the specification gives each way a call ends.
Classification(err) ==
    CASE err \in {"nil", "none"} -> ErrOk
      [] err = "eof" -> ErrNoMorePacket
      [] err \in {"io", "closed"} -> ErrRead
      [] err = "parse" -> ErrInvalidHeader
      [] err = "overflow" -> ErrSizeOverflow
      [] err = "write" -> ErrWrite
\* C9, as claimed: LastError() is the outcome of the most recent
\* ReadPacket/WritePacket call (Ok when it succeeded), and Ok right after
\* Create, Open and Close.
C9_LastErrorIsLastOutcome ==
    (Container /\ ~panicked) =>
        /\ res.op \in {"ReadPacket", "WritePacket"} => LastError = Classification(res.err)
        /\ res.op \in {"Create", "Open"} => LastError = ErrOk
        /\ (res.op = "Close" /\ res.err # "already closed") => LastError = ErrOk
\* C9 (amended): LastError() is the classification of the most recent
\* ReadPacket/WritePacket call that failed (a later successful call does not
\* reset it); it is Ok while no call has failed since Create/Open or since
\* Close.
C9_LastErrorIsLastFailure ==
    Container => LastError = Classification(lastFail)
C9_Witness ==
    /\ res.op = "WritePacket"
    /\ res.err = "nil"
    /\ lastFail = "eof"
    /\ LastError = ErrNoMorePacket

\* C10: in every state of a container the read cursor is at most the
\* tracked size.
C10_CursorWithinSize ==
    Container => pcap.offset <= pcap.fsize

\* Every goroutine is outside a call.
Quiescent == \A t \in Threads : th[t].pc = "idle"
Resetting == { t \in Threads : th[t].pc \in {"c266", "c267", "c268", "c269", "c270", "c271", "c272"} }

\* C11: no lost scalar updates.  When goroutines have made ReadPacket and
\* WritePacket calls concurrently (and no Close) and all calls have returned,
\* the tracked size has grown by the sum of the counts the successful writes
\* returned and the cursor has advanced by the number of octets the ReadAt
\* calls of the reads returned without error.
C11_NoLostUpdates ==
    (Quiescent /\ ~panicked /\ acct.closes = 0) =>
        /\ pcap.fsize = acct.fsize0 + acct.w
        /\ pcap.offset = acct.offset0 + acct.r
\* Two reads that loaded the same cursor and a write have all returned.
C11_Witness ==
    /\ Quiescent
    /\ acct.closes = 0
    /\ \E t, u \in Threads :
          /\ t # u
          /\ th[t].ret.op = "ReadPacket" /\ th[t].ret.err = "nil"
          /\ th[u].ret.op = "ReadPacket" /\ th[u].ret.err = "nil"
          /\ th[t].hdrAt = th[u].hdrAt
    /\ acct.w > 0
    /\ acct.r >= 2 * minPacketSize
    /\ pcap.offset = acct.offset0 + acct.r
    /\ pcap.fsize = acct.fsize0 + acct.w

\* C12: single-winner close.  Of any number of Close calls made concurrently
\* with one another (and with any other call), one resets the container and
\* closes the file, the file is closed once, and every other Close returns
\* "already closed".
C12_SingleWinnerClose ==
    /\ rd.closes <= 1
    /\ acct.won = rd.closes
    /\ Cardinality(Resetting) <= 1
    /\ acct.lost > 0 => pcap.isClosed
    /\ (Quiescent /\ ~panicked /\ acct.closes > 0) =>
          /\ acct.won = 1
          /\ acct.lost = acct.closes - 1
          /\ pcap.isClosed
C12_Witness ==
    /\ Quiescent
    /\ acct.closes >= 2
    /\ acct.won = 1
    /\ acct.lost = acct.closes - 1
    /\ \E t, u \in Threads :
          /\ t # u
          /\ th[t].ret.op = "Close" /\ th[t].ret.err = "nil"
          /\ th[u].ret.op = "Close" /\ th[u].ret.err = "already closed"

\* C13: last-error and closed flag are lock-guarded.  No step changes
\* pcap.lasterr or pcap.isClosed while a goroutine holds the read lock of
\* pcap.mx inside LastError() or Next(), as none could were the write lock
\* held for the update.
C13_LockGuardedUpdates ==
    [][ (pcap'.lasterr # pcap.lasterr \/ pcap'.isClosed # pcap.isClosed)
            => (locks.mxR = {} /\ locks'.mxR = {}) ]_vars

\* C14: read-loop termination.  A ReadPacket call made while Next() is
\* true, the store not failing, either advances the cursor or leaves Next()
\* false, so that a loop "while Next() { ReadPacket }" ends on any file.
C14_ReadLoopProgress ==
    [][ (Called("ReadPacket") /\ HasNext /\ res'.err \notin {"io", "panic"})
            => (pcap'.offset > pcap.offset \/ ~(pcap'.offset < pcap'.fsize)) ]_vars

\* The position in a 10-octet packet header of its first invalid field: the
\* class, the timestamp, the length; -1 when all are valid.
PacketHeaderVerdict(b, snapLen) ==
    IF b[2] \notin {2, 4, 8} THEN 0
    ELSE IF Uint32(b, 2) = 0 THEN 2
    ELSE IF Uint32(b, 6) > snapLen THEN 6
    ELSE -1
\* C15: positioned parse error of ReadPacket.  When the header of the frame
\* at the cursor fails validation, the Offset of the ParseError is the
\* frame's offset in the file plus the position of the first invalid field
\* in the header.
C15_ParseErrorOffset ==
    [][ (Called("ReadPacket") /\ res'.err = "parse")
            => res'.off = pcap.offset
                   + PacketHeaderVerdict(SubSeq(disk, pcap.offset + 1, pcap.offset + minPacketSize),
                                         pcap.h.snapLen) ]_vars

\* C16: the cursor stays on a frame boundary.  Create and Open leave the
\* cursor at 14, every ReadPacket call moves it by the size of the frame it
\* returned (by nothing when it fails), and no other call moves it before
\* Close: the cursor is 14 plus the sizes of the frames returned so far.
C16_CursorOnFrameBoundary ==
    [][ /\ (Called("ReadPacket") /\ ~panicked') => pcap'.offset = pcap.offset + res'.n
        /\ ((Called("Create") \/ Called("Open")) /\ res'.err = "nil") => pcap'.offset = minFileSize
        /\ (Called("WritePacket") \/ Called("SetLinkType")) => pcap'.offset = pcap.offset ]_vars

\* C17: the reader enforces the frame-size invariant.  Every packet a
\* successful ReadPacket returns has Len + 10 at most the snap length of the
\* container.
C17_ReaderFrameBound ==
    (res.op = "ReadPacket" /\ res.err = "nil") =>
        pkts[res.arg].Len + minPacketSize <= pcap.h.snapLen

\* C18: Open yields a populated header.  After a successful Open the held
\* header has the five fields stored in the file, LinkType() is the link
\* type stored in octets 10..13, the cursor is 14, the size is the file's
\* size, the packet count is 0 and the last error is Ok.
C18_OpenPopulatedHeader ==
    (res.op = "Open" /\ res.err = "nil") =>
        /\ pcap.h = FileHeader(Uint16(disk, 0), Uint16(disk, 2), Uint16(disk, 4),
                               Uint32(disk, 6), Uint32(disk, 10))
        /\ LinkType = Uint32(disk, 10)
        /\ pcap.offset = minFileSize
        /\ pcap.fsize = Len(disk)
        /\ PacketCount = 0
        /\ LastError = ErrOk

\* C19: Create/Open header compatibility.  The header decoder accepts the 14
\* octets Create has written, and Open succeeds on a file made by Create on
\* a new path, successful writes of valid packets and Close.
C19_CreateOpenCompatible ==
    /\ (res.op = "Create" /\ res.err = "nil") =>
          unmarshalFileHeader(SubSeq(disk, 1, minFileSize)).err = "nil"
    /\ (res.op = "Open" /\ iter.st \in {"reading", "openfail"}) => res.err = "nil"

\* C20: Len() counts the successful reads.  Len() is 0 after Create and
\* Open, one more after each ReadPacket that returns without error, and
\* unchanged by a ReadPacket that fails and by every WritePacket and
\* SetLinkType; it is reset by the first Close only.
C20_LenCountsReads ==
    [][ /\ ((Called("Create") \/ Called("Open")) /\ res'.err = "nil") => pcap'.len = 0
        /\ (Called("ReadPacket") /\ res'.err = "nil") => pcap'.len = pcap.len + 1
        /\ (Called("ReadPacket") /\ res'.err # "nil") => pcap'.len = pcap.len
        /\ (Called("WritePacket") \/ Called("SetLinkType")) => pcap'.len = pcap.len
        /\ (Called("Close") /\ pcap.isClosed) => pcap'.len = pcap.len ]_vars
\* Two reads have succeeded and a third call, a failed read, left Len() at 2.
C20_Witness ==
    /\ res.op = "ReadPacket"
    /\ res.err = "eof"
    /\ PacketCount = 2
    /\ ~pcap.isClosed

\* The 10 + p.Len octets a frame of packet p has when nothing but p goes
\* into it: the header, then p.Data cut or padded with zeros to p.Len octets.
FrameOfArgument(p) ==
    marshalPacketHeader(p)
        \o [i \in 1..p.Len |-> IF i <= Len(p.Data) THEN p.Data[i] ELSE 0]
\* C21: the output of WritePacket depends on its argument only.  A
\* WritePacket call whose packet passes the overflow check, whatever its Len
\* field, does not panic, and when it succeeds the octets it appended to the
\* file are those of FrameOfArgument: none was left in the scratch buffer by
\* an earlier call.
C21_WriteDependsOnArgument ==
    [][ ( /\ Called("WritePacket")
          /\ pcap.h # NilHeader
          /\ Len(res'.arg.Data) + minPacketSize <= pcap.h.snapLen )
        => ( /\ ~panicked'
             /\ res'.err = "nil" =>
                    SubSeq(disk', rd.pos + 1, rd.pos + res'.n) = FrameOfArgument(res'.arg) ) ]_vars

\* The offsets of the frames of CFrames in the file.
CFrameStarts == { minFileSize, minFileSize + Len(Frame(P0)) }
\* Goroutine t is outside a call and its last call, a ReadPacket, succeeded.
ReturnedPacket(t) ==
    th[t].pc = "idle" /\ th[t].ret.op = "ReadPacket" /\ th[t].ret.err = "nil"
\* C22: concurrent reads return distinct whole frames.  While the file holds
\* the two well-formed frames it started with and nobody has called Close,
\* every ReadPacket that succeeded took its header at the start of a stored
\* frame and its payload (when it has one) right after that header, and no
\* two goroutines were returned the frame at the same offset.
C22_DistinctWholeFrames ==
    (acct.closes = 0 /\ disk \in {CDisk("CreateOver"), CDisk("Open")}) =>
        \A t \in Threads :
            ReturnedPacket(t) =>
                /\ th[t].hdrAt \in CFrameStarts
                /\ th[t].pkt.Len > 0 => th[t].payAt = th[t].hdrAt + minPacketSize
                /\ \A u \in Threads \ {t} :
                       ReturnedPacket(u) => th[u].hdrAt # th[t].hdrAt

====
